---- MODULE Spec2Model ----
(***************************************************************************)
(* vk-mass-sending-bot: the rate-limited dispatch queue, the member        *)
(* enumerator, the recipient filter and the broadcast runner.              *)
(*                                                                         *)
(* The repository holds several variants of the same bot.  They differ in  *)
(* the body of the per-recipient task; `variant` selects one:              *)
(*   "chain"  sendMessage(...).catch(...)        src/index.js 829-841      *)
(*   "try"    async task with try/catch          src/index.js 287-307      *)
(*   "perm"   permission check + send in a task  src/unnamed/part_000      *)
(*                                               342-380                   *)
(*   "seq"    sequential loop, every API call    src/unnamed/part_001      *)
(*            admitted on its own by vkApi       36-61, 170-218            *)
(* One JavaScript macrotask (an event handler together with the microtasks *)
(* it triggers) is one action.                                             *)
(***************************************************************************)
EXTENDS Integers, Sequences, FiniteSets, TLC

(* ------------------------------ bounds -------------------------------- *)
NumUsers == 2      \* members of the community
IntervalCap == 1   \* intervalCap of the queue, scaled down from 30
Interval == 2      \* interval of the queue in clock units, scaled from 1000 ms
PageSize == 2      \* page size of groups.getMembers, scaled down from 1000
MaxTotal == 3      \* largest data.count a page response reports
RetryAfter == 1    \* a positive retry_after hint, in clock units
MaxSide == 1       \* concurrent commands handled while one run lasts
MaxListLen == 2    \* longest member list and id list given to filterUsers alone
ProgressEvery == 2 \* cadence of the progress line, scaled down from 10
MaxNow == 3        \* latest time stamp of the list cache

Users == 1..NumUsers
CallId == 0                  \* the call the command handler is awaiting
SideId == NumUsers + 1       \* the call a second, concurrent command awaits
SideTask == NumUsers + 2     \* the dry-run tasks of a second, concurrent command
TaskIds == 0..(NumUsers + 2)
Variants == {"chain", "try", "perm", "seq"}
Community == [i \in 1..NumUsers |-> i]
AllowChoices == {<<>>, <<"2">>}
BlockChoices == {<<>>, <<"2">>}

\* What the external API answers to one request: success, an error that is
\* not a throttle, error 429 without a retry_after, with retry_after = 0,
\* with retry_after = RetryAfter.
Outcomes == {"ok", "err", "tnone", "t0", "t1"}

Min(a, b) == IF a < b THEN a ELSE b

RECURSIVE SumSeq(_)
SumSeq(s) == IF s = <<>> THEN 0 ELSE Head(s) + SumSeq(Tail(s))

Bump(log, n) == [log EXCEPT ![1] = @ + n]
Shift(log) == <<0>> \o SubSeq(log, 1, Len(log) - 1)
ZeroLog == [i \in 1..Interval |-> 0]

(* ------------------------- the program's helpers ---------------------- *)
PQueueOptionsWrongCap == [intervalCap |-> IntervalCap + 1, interval |-> Interval]

\* new PQueue({ intervalCap: 30, interval: 1000 })
PQueueOptions == [intervalCap |-> IntervalCap, interval |-> Interval]

\* err.code === 429
IsThrottled(e) == e \in {"tnone", "t0", "t1"}

\* err.data?.parameters?.retry_after; -1 stands for undefined
RetryAfterOf(e) == CASE e = "t0" -> 0 [] e = "t1" -> RetryAfter [] OTHER -> -1

\* setTimeout(r, retry_after * 1000): a delay that is not positive is none
DelayOf(e) == IF RetryAfterOf(e) > 0 THEN RetryAfterOf(e) ELSE 0

\* JavaScript truthiness of a number or undefined
Truthy(n) == n > 0

\* the condition of the catch block that guards the single retry
ShouldRetry(e, dry) == IsThrottled(e) /\ Truthy(RetryAfterOf(e)) /\ ~dry

\* String(user.id)
String(n) == ToString(n)

Includes(list, s) == \E i \in 1..Len(list) : list[i] = s

\* A reply to the invoker: its kind and the numbers its text carries, -1
\* where the text carries none ('Broadcast complete.' carries none,
\* 'Sending to n users (m blocked users filtered out)' carries two).
Reply(kind, n, m) == [kind |-> kind, n |-> n, m |-> m]

IsAdminAnyone(userId) == TRUE

\* the ids of process.env.ADMIN_IDS
ADMIN_IDS == {1}

\* ADMIN_IDS.includes(userId)
IsAdmin(userId) == userId \in ADMIN_IDS

\* addToBlocklist / addToAllowlist: the list the file holds afterwards
addTo(list, id) == IF Includes(list, id) THEN list ELSE Append(list, id)

\* removeFromBlocklist / removeFromAllowlist
removeFrom(list, id) ==
  LET keep(x) == x # id
  IN SelectSeq(list, keep)

StoredAfterLoadCleared(list) == <<>>

\* loadAllowlist / loadBlocklist read the file and never write it: the list
\* the file holds after a load
StoredAfterLoad(list) == list

filterUsersAllowWins(users, allow, block) ==
  LET keep(u) == \/ Len(allow) > 0 /\ Includes(allow, String(u))
                 \/ Len(allow) = 0 /\ ~Includes(block, String(u))
  IN SelectSeq(users, keep)

filterUsersIgnoresAllow(users, allow, block) ==
  LET keep(u) == ~Includes(block, String(u))
  IN SelectSeq(users, keep)

filterUsersEmptyAllowsNobody(users, allow, block) ==
  LET keep(u) == Includes(allow, String(u)) /\ ~Includes(block, String(u))
  IN SelectSeq(users, keep)

\* filterUsers in one pass (index.js 181-198, part_001 72-80)
filterUsers(users, allow, block) ==
  LET keep(u) == /\ (Len(allow) = 0 \/ Includes(allow, String(u)))
                 /\ ~Includes(block, String(u))
  IN SelectSeq(users, keep)

filterUsersTwoPassAllowOnly(users, allow, block) ==
  LET isAllowed(u) == Includes(allow, String(u))
      isBlocked(u) == Includes(block, String(u))
      notBlocked(u) == ~isBlocked(u)
  IN IF Len(allow) > 0 THEN SelectSeq(users, isAllowed)
     ELSE SelectSeq(users, notBlocked)

\* filterUsers in two passes (index.js 738-748): users.filter(isAllowed) when
\* the allowlist has entries, then users.filter(user => !isBlocked(user.id))
filterUsersTwoPass(users, allow, block) ==
  LET isAllowed(u) == Includes(allow, String(u))
      isBlocked(u) == Includes(block, String(u))
      notBlocked(u) == ~isBlocked(u)
      allowed == IF Len(allow) > 0 THEN SelectSeq(users, isAllowed) ELSE users
  IN SelectSeq(allowed, notBlocked)

(* ------------------------------- state -------------------------------- *)
VARIABLES
  variant,        \* the variant of the bot that is running
  allowlist,      \* allowlist.json, a list of string-encoded ids
  blocklist,      \* blocklist.json
  clock,          \* time since the last interval tick, 0..Interval-1
  waiting,        \* the queue: admitted tasks that have not started, FIFO
  intervalCount,  \* tasks started in the current interval
  pendingCount,   \* tasks started and not yet settled
  taskpc,         \* position of every task
  timer,          \* remaining retry delay per recipient
  run,            \* the broadcast command handler: pc, dryRun, cur, replies
  side,           \* the second, concurrent command handler
  members,        \* members gathered so far
  offset,         \* next page offset
  total,          \* count of the first page, -1 while null
  recipients,     \* filteredUsers of the run
  processed,      \* the run's processed counter
  progress,       \* values of processed for which the run logged a progress line
  skipped,        \* the run's skipped counter
  sends,          \* messages.send requests issued per recipient in this run
  unhandled,      \* recipients whose task promise rejected with no handler
  crashed,        \* the process was ended by an unhandled rejection
  lateAdmit,      \* a task was admitted while the run was draining
  blocklistMtime,        \* stats.mtime.getTime() of blocklist.json
  blocklistCache,        \* the cached array, or null
  blocklistLastModified, \* the time stamp kept with the cached array
  now,                   \* Date.now()
  loaded,                \* what the last loadBlocklist() returned
  returned,              \* what the last add or remove returned, or "threw"
  env,                   \* process.env: VK_TOKEN, VK_GROUP_ID, ADMIN_IDS
  boot,                  \* the process: starting, running or exited
  SECRET,                \* process.env.SECRET
  req,                   \* the webhook request being handled
  res,                   \* the response to it
  outside,        \* kinds of API requests issued outside any queue task
  startLog,       \* tasks started, per clock unit, last Interval units
  reqCount,       \* requests issued by queue tasks since the last interval tick
  sideCount       \* concurrent commands handled during this run

vars == <<variant, allowlist, blocklist, clock, waiting, intervalCount,
          pendingCount, taskpc, timer, run, side, members, offset, total,
          recipients, processed, progress, skipped, sends, unhandled,
          crashed, lateAdmit, outside, startLog, reqCount, sideCount,
          blocklistMtime, blocklistCache, blocklistLastModified, now, loaded,
          returned, env, boot, SECRET, req, res>>

\* let blocklistCache = null; let blocklistLastModified = 0;
NoCache == [null |-> TRUE, data |-> <<>>]
Cached(list) == [null |-> FALSE, data |-> list]

cacheVars == <<blocklistMtime, blocklistCache, blocklistLastModified, now, loaded,
               returned>>

CacheStart ==
  /\ blocklistMtime = 1
  /\ blocklistCache = NoCache
  /\ blocklistLastModified = 0
  /\ now = 1
  /\ loaded = <<>>
  /\ returned = "none"

envVars == <<env, boot>>

hookVars == <<SECRET, req, res>>

NoRequest == [type |-> "none", secret |-> "absent", object |-> FALSE]
NoResponse == [status |-> 0, body |-> "none", handled |-> FALSE]

\* no webhook request is being handled
HookIdle ==
  /\ SECRET = "s"
  /\ req = NoRequest
  /\ res = NoResponse

\* The environment of the running bot: the process has passed the validation
\* at the top of the module (index.js 8-26) with the admin of ADMIN_IDS.
Booted ==
  /\ env = [token |-> "t", group |-> "1", admins |-> <<"1">>]
  /\ boot = "running"

\* the state the module's top level constructs
Constructed ==
  /\ CacheStart
  /\ variant \in Variants
  /\ allowlist \in AllowChoices
  /\ blocklist \in BlockChoices
  /\ clock = 0
  /\ waiting = <<>>
  /\ intervalCount = 0
  /\ pendingCount = 0
  /\ taskpc = [id \in TaskIds |-> "none"]
  /\ timer = [u \in Users |-> 0]
  /\ run = [pc |-> "idle", dryRun |-> FALSE, cur |-> 0, reply |-> "none", replies |-> <<>>]
  /\ side = [pc |-> "idle", offset |-> 0, cmd |-> "none"]
  /\ members = <<>>
  /\ offset = 0
  /\ total = -1
  /\ recipients = <<>>
  /\ processed = 0
  /\ progress = {}
  /\ skipped = 0
  /\ sends = [u \in Users |-> 0]
  /\ unhandled = {}
  /\ crashed = FALSE
  /\ lateAdmit = FALSE
  /\ outside = {}
  /\ startLog = ZeroLog
  /\ reqCount = 0
  /\ sideCount = 0

Init == Booted /\ HookIdle /\ Constructed

\* filterUsers as the running variant defines it
Filter(users) ==
  IF variant = "chain" THEN filterUsersTwoPass(users, allowlist, blocklist)
  ELSE filterUsers(users, allowlist, blocklist)

(* ------------------------------ the queue ----------------------------- *)
ReplyAwaited == variant \in {"perm", "seq"}
Parallel == variant \in {"chain", "try", "perm"}
CountedOnlyTry == variant = "try"

\* the variants whose task counts a successful send: processed++
Counted == variant \in {"try", "perm", "seq"}
CurUserRefiltered ==
  LET rs == Filter(members)
  IN IF run.cur \in 1..Len(rs) THEN rs[run.cur] ELSE 0

\* `user` of the sequential loop: an element of the list filtered before it
CurUser == IF run.cur \in 1..Len(recipients) THEN recipients[run.cur] ELSE 0
ZeroSends == [u \in Users |-> 0]

RecipientStartPcIgnoringDryRun(dry) == IF variant = "perm" THEN "check" ELSE "send"

\* Where a recipient's task stands once the microtasks of its start have run:
\* a dry run only logs and the task has settled, a live run has its first
\* request in flight.
RecipientStartPc(dry) ==
  IF dry THEN "done" ELSE IF variant = "perm" THEN "check" ELSE "send"

\* if (processed % 10 === 0 || processed === total) console.log(progress):
\* the progress lines logged while processed goes from `from` to `to`
Reports(from, to, tot) ==
  {v \in (from + 1)..to : v % ProgressEvery = 0 \/ v = tot}

CountTwice(h) == [h EXCEPT !.pr = @ + 2]

\* processed++ followed by the progress check
CountAndReport(h) ==
  [h EXCEPT !.pr = @ + 1, !.rep = @ \cup Reports(h.pr, h.pr + 1, h.tot)]

\* The handler's view of the state, to be amended by each action.
Cur == [tp |-> taskpc, w |-> waiting, c |-> intervalCount, p |-> pendingCount,
        pr |-> processed, rep |-> progress, tot |-> Len(recipients), sb |-> sends, rpc |-> run.pc, cu |-> CurUser,
        sl |-> startLog, rq |-> reqCount]

StartOrderNewestFirst(w) == [i \in 1..Len(w) |-> w[Len(w) + 1 - i]]

\* the order in which the queue takes the waiting tasks: as submitted
StartOrder(w) == w

\* The queue starts waiting tasks, oldest first, while the interval's count is
\* below the cap.  A started task runs up to its first await: it issues its
\* request, or, in a dry run, logs and counts the recipient.
Step(h) ==
  LET cap == PQueueOptions.intervalCap
      k == IF h.c >= cap THEN 0 ELSE Min(Len(h.w), cap - h.c)
      q == StartOrder(h.w)
      started == {q[i] : i \in 1..k}
      rest == SubSeq(q, k + 1, Len(q))
      pcOf(id) == IF id \in Users THEN RecipientStartPc(run.dryRun)
                  ELSE IF id = SideTask
                       THEN (IF Includes(rest, SideTask) THEN "queued" ELSE "done")
                       ELSE "flight"
      settles(id) == id = SideTask \/ (id \in Users /\ RecipientStartPc(run.dryRun) = "done")
      ndry == Cardinality({i \in 1..k : settles(q[i])})
      nrun == Cardinality({i \in 1..k : q[i] \in Users /\ settles(q[i])})
      sendsNow(u) == \/ u \in started /\ pcOf(u) = "send"
                     \/ /\ CallId \in started
                        /\ h.rpc \in {"sSend", "sRetry"}
                        /\ u = h.cu
  IN /\ waiting' = rest
     /\ intervalCount' = h.c + k
     /\ pendingCount' = h.p + k - ndry
     /\ taskpc' = [id \in TaskIds |-> IF id \in started THEN pcOf(id) ELSE h.tp[id]]
     /\ processed' = h.pr + (IF variant \in {"try", "perm"} THEN nrun ELSE 0)
     /\ progress' = h.rep \cup (IF variant \in {"try", "perm"}
                                THEN Reports(h.pr, h.pr + nrun, h.tot)
                                ELSE {})
     /\ sends' = [u \in Users |-> h.sb[u] + (IF sendsNow(u) THEN 1 ELSE 0)]
     /\ startLog' = Bump(h.sl, k)
     /\ reqCount' = h.rq + (k - ndry)

IdleNext == waiting' = <<>> /\ pendingCount' = 0

\* A pending onIdle() resolves when the queue is empty and nothing executes.
ResumeIfIdle(r) ==
  IF r.pc \in {"drain", "drainEnum"} /\ IdleNext
  THEN [r EXCEPT !.pc = IF r.pc = "drain" THEN "drained" ELSE "loaded"]
  ELSE r

\* The same for the onIdle() a concurrent test broadcast is waiting for; its
\* completion reply follows.
ResumeSide(sd) ==
  IF sd.pc = "drain" /\ IdleNext THEN [pc |-> "idle", offset |-> 0, cmd |-> "none"]
  ELSE sd

AwaitIdleNoWait(r, waitPc, thenPc) == [r EXCEPT !.pc = thenPc]

\* await queue.onIdle(): returns at once when the queue is idle
AwaitIdle(r, waitPc, thenPc) ==
  [r EXCEPT !.pc = IF IdleNext THEN thenPc ELSE waitPc]

\* the handler's awaited call has returned
CallDone(h) ==
  [h EXCEPT !.tp = [@ EXCEPT ![CallId] = "none"],
            !.p = @ - (IF taskpc[CallId] = "flight" THEN 1 ELSE 0)]

\* queue.add(...) of the handler's next call
AdmitCall(h) ==
  [h EXCEPT !.tp = [@ EXCEPT ![CallId] = "queued"], !.w = Append(@, CallId)]

\* an awaited reply: through the queue in "seq", a direct request in "perm"
IssueReply(h) ==
  IF variant = "seq" THEN AdmitCall(h)
  ELSE [h EXCEPT !.tp = [@ EXCEPT ![CallId] = "direct"]]

ReplyOutside == IF variant = "seq" THEN outside ELSE outside \cup {"reply"}

(* ------------------------------ time ---------------------------------- *)
\* One clock unit passes; at the interval tick the count is reset and the
\* queue starts what the new interval allows.
Advance ==
  /\ ~crashed
  /\ clock' = (clock + 1) % PQueueOptions.interval
  /\ timer' = [u \in Users |-> IF timer[u] > 0 THEN timer[u] - 1 ELSE 0]
  /\ Step([Cur EXCEPT !.c = IF clock' = 0 THEN 0 ELSE intervalCount,
                      !.sl = Shift(startLog),
                      !.rq = IF clock' = 0 THEN 0 ELSE reqCount])
  /\ run' = ResumeIfIdle(run)
  /\ side' = ResumeSide(side)
  /\ UNCHANGED <<hookVars, envVars, cacheVars, variant, allowlist, blocklist, sideCount, members, offset,
                 total, recipients, skipped, unhandled, crashed,
                 lateAdmit, outside>>

(* ------------------------ the broadcast command ----------------------- *)
\* /broadcast (dry = FALSE) or /test_broadcast (dry = TRUE) up to its first
\* await: the first reply, then the first page request of gatherUserIds.
StartRun(dry) ==
  /\ ~crashed
  /\ run.pc \in {"idle", "done", "failed"}
  /\ run' = [pc |-> IF ReplyAwaited THEN "reply1" ELSE "enum",
             dryRun |-> dry, cur |-> 0, reply |-> "start",
             replies |-> <<Reply("start", -1, -1)>>]
  /\ members' = <<>>
  /\ offset' = 0
  /\ total' = -1
  /\ recipients' = <<>>
  /\ skipped' = 0
  /\ unhandled' = {}
  /\ sideCount' = 0
  /\ lateAdmit' = FALSE
  /\ timer' = [u \in Users |-> 0]
  /\ outside' = ReplyOutside
  /\ LET h0 == [Cur EXCEPT !.tp = [id \in TaskIds |->
                               IF id \in Users THEN "none" ELSE taskpc[id]],
                           !.pr = 0, !.rep = {}, !.tot = 0, !.sb = ZeroSends, !.rpc = run'.pc]
     IN Step(IF ReplyAwaited THEN IssueReply(h0) ELSE AdmitCall(h0))
  /\ side' = ResumeSide(side)
  /\ UNCHANGED <<hookVars, envVars, cacheVars, variant, allowlist, blocklist, clock, crashed>>

\* A page of groups.getMembers returns (gatherUserIds / getUserIds).
FirstCountLatest(tot, cnt) == cnt

\* if (total === null) total = data.count
FirstCount(tot, cnt) == IF tot = -1 THEN cnt ELSE tot

LoopAgainInclusive(off, tot) == ~(off > tot)

LoopAgainNever(off, tot) == FALSE

\* if (offset >= total) break
LoopAgain(off, tot) == ~(off >= tot)

PageItemsFromStart(off, cnt) ==
  SubSeq(Community, 1, Min(PageSize, Min(cnt, NumUsers)))

\* data.items of the page at off, when the community has cnt members at the
\* time of the response (of which the first NumUsers are known by id)
PageItems(off, cnt) ==
  SubSeq(Community, off + 1, Min(off + PageSize, Min(cnt, NumUsers)))

\* One page of groups.getMembers returns: data.count is cnt.  After the last
\* page peer_list.json is written (not in part_001); "wfail" is the page
\* answered and that write failing, which fails the enumeration as an error
\* of a page does.
PageResponse(outcome, cnt) ==
  /\ ~crashed
  /\ run.pc = "enum"
  /\ taskpc[CallId] = "flight"
  /\ outcome = "wfail" =>
       (variant # "seq" /\ ~LoopAgain(offset + PageSize, FirstCount(total, cnt)))
  /\ IF outcome = "ok"
     THEN /\ total' = FirstCount(total, cnt)
          /\ members' = members \o PageItems(offset, cnt)
          /\ offset' = offset + PageSize
          /\ Step(IF LoopAgain(offset', total') THEN AdmitCall(CallDone(Cur))
                  ELSE CallDone(Cur))
          /\ run' = IF LoopAgain(offset', total') THEN run
                    ELSE IF variant = "seq"
                         THEN AwaitIdle(run, "drainEnum", "loaded")
                         ELSE [run EXCEPT !.pc = "loaded"]
          /\ outside' = outside
     ELSE /\ IF outcome = "wfail"
             THEN /\ total' = FirstCount(total, cnt)
                  /\ members' = members \o PageItems(offset, cnt)
                  /\ offset' = offset + PageSize
             ELSE UNCHANGED <<total, members, offset>>
          /\ outside' = ReplyOutside
          /\ run' = [run EXCEPT !.pc = IF ReplyAwaited THEN "replyFail" ELSE "failed",
                                    !.reply = "fail",
                                    !.replies = Append(@, Reply("fail", -1, -1))]
          /\ Step(IF ReplyAwaited THEN [IssueReply(CallDone(Cur)) EXCEPT !.rpc = "replyFail"]
                  ELSE CallDone(Cur))
  /\ side' = ResumeSide(side)
  /\ UNCHANGED <<hookVars, envVars, cacheVars, variant, allowlist, blocklist, sideCount, clock, timer, recipients,
                 skipped, unhandled, crashed, lateAdmit>>

\* broadcast() / sendBroadcast(): filter, admit one task per recipient (or,
\* in "seq", start the sequential loop), then await queue.onIdle().
Dispatch(h, r) ==
  LET rs == Filter(members)
  IN /\ recipients' = rs
     /\ IF Parallel
        THEN /\ Step([h EXCEPT !.w = @ \o rs, !.tot = Len(rs),
                               !.tp = [id \in TaskIds |->
                                        IF Includes(rs, id) THEN "queued" ELSE h.tp[id]],
                               !.rpc = "drain"])
             /\ run' = AwaitIdle([r EXCEPT !.cur = 0], "drain", "drained")
        ELSE IF run.dryRun \/ rs = <<>>
             THEN /\ Step([h EXCEPT !.pr = IF run.dryRun THEN Len(rs) ELSE 0,
                                    !.rep = IF run.dryRun
                                            THEN Reports(0, Len(rs), Len(rs)) ELSE {},
                                    !.rpc = "drain"])
                  /\ run' = AwaitIdle([r EXCEPT !.cur = Len(rs) + 1], "drain", "drained")
             ELSE /\ Step([AdmitCall(h) EXCEPT !.rpc = "sCheck", !.cu = rs[1]])
                  /\ run' = [r EXCEPT !.pc = "sCheck", !.cur = 1]

TemplateUsableWhenRead(tpl) == tpl # "unreadable"

\* readFileSync(...).trim() did not throw, and `if (!templateContent)`
TemplateUsable(tpl) == tpl = "ok"

\* The handler after the enumeration: filter for the status line, read the
\* template, reply with the status, call broadcast().  tpl is what reading
\* broadcast_template.txt gives.
Prepare(tpl) ==
  /\ ~crashed
  /\ run.pc = "loaded"
  /\ LET filtered == Filter(members)
         blockedCount == Len(members) - Len(filtered)
         statusSent == \/ ~run.dryRun
                       \/ blockedCount > 0
                       \/ ~ReplyAwaited /\ Len(allowlist) > 0
     IN IF ~TemplateUsable(tpl)
        THEN /\ outside' = ReplyOutside
             /\ run' = [run EXCEPT !.pc = IF ReplyAwaited THEN "replyFail" ELSE "failed",
                                    !.reply = "fail",
                                    !.replies = Append(@, Reply("fail", -1, -1))]
             /\ Step(IF ReplyAwaited THEN [IssueReply(Cur) EXCEPT !.rpc = "replyFail"]
                     ELSE Cur)
             /\ UNCHANGED recipients
        ELSE IF ReplyAwaited /\ statusSent
             THEN /\ outside' = ReplyOutside
                  /\ run' = [run EXCEPT !.pc = "replyStatus", !.reply = "status",
                                         !.replies = Append(@, Reply("status", Len(filtered), blockedCount))]
                  /\ Step([IssueReply(Cur) EXCEPT !.rpc = "replyStatus"])
                  /\ UNCHANGED recipients
             ELSE /\ outside' = IF statusSent THEN ReplyOutside ELSE outside
                  /\ Dispatch(Cur, IF statusSent
                                    THEN [run EXCEPT !.reply = "status",
                                                     !.replies = Append(@, Reply("status", Len(filtered), blockedCount))]
                                    ELSE run)
  /\ side' = ResumeSide(side)
  /\ allowlist' = StoredAfterLoad(allowlist)
  /\ blocklist' = StoredAfterLoad(blocklist)
  /\ UNCHANGED <<hookVars, envVars, cacheVars, variant, sideCount, clock, timer, members,
                 offset, total, skipped, unhandled, crashed, lateAdmit>>

\* The awaited status reply returns, then broadcast() is called.
StatusResponse(outcome) ==
  /\ ~crashed
  /\ run.pc = "replyStatus"
  /\ taskpc[CallId] \in {"flight", "direct"}
  /\ IF outcome = "ok"
     THEN /\ Dispatch(CallDone(Cur), run)
          /\ outside' = outside
     ELSE /\ outside' = ReplyOutside
          /\ run' = [run EXCEPT !.pc = "replyFail", !.reply = "fail",
                                    !.replies = Append(@, Reply("fail", -1, -1))]
          /\ Step([IssueReply(CallDone(Cur)) EXCEPT !.rpc = "replyFail"])
          /\ UNCHANGED recipients
  /\ side' = ResumeSide(side)
  /\ allowlist' = StoredAfterLoad(allowlist)
  /\ blocklist' = StoredAfterLoad(blocklist)
  /\ UNCHANGED <<hookVars, envVars, cacheVars, variant, sideCount, clock, timer, members,
                 offset, total, skipped, unhandled, crashed, lateAdmit>>

\* Another awaited reply of the handler returns: the first one, the
\* completion reply or the failure reply.
ReplyResponse(outcome) ==
  /\ ~crashed
  /\ run.pc \in {"reply1", "replyDone", "replyFail"}
  /\ taskpc[CallId] \in {"flight", "direct"}
  /\ IF outcome = "ok" /\ run.pc = "reply1"
     THEN /\ run' = [run EXCEPT !.pc = "enum"]
          /\ Step([AdmitCall(CallDone(Cur)) EXCEPT !.rpc = "enum"])
          /\ outside' = outside
     ELSE IF outcome # "ok" /\ run.pc = "replyDone"
     THEN /\ run' = [run EXCEPT !.pc = "replyFail", !.reply = "fail",
                                    !.replies = Append(@, Reply("fail", -1, -1))]
          /\ Step([IssueReply(CallDone(Cur)) EXCEPT !.rpc = "replyFail"])
          /\ outside' = ReplyOutside
     ELSE /\ run' = [run EXCEPT !.pc = IF outcome = "ok" /\ run.pc = "replyDone"
                                       THEN "done" ELSE "failed"]
          /\ Step([CallDone(Cur) EXCEPT !.rpc = "done"])
          /\ outside' = outside
  /\ side' = ResumeSide(side)
  /\ UNCHANGED <<hookVars, envVars, cacheVars, variant, allowlist, blocklist, sideCount, clock, timer, members,
                 offset, total, recipients, skipped, unhandled,
                 crashed, lateAdmit>>

\* The drain has resolved: the completion reply.
Finish ==
  /\ ~crashed
  /\ run.pc = "drained"
  /\ outside' = ReplyOutside
  /\ run' = [run EXCEPT !.pc = IF ReplyAwaited THEN "replyDone" ELSE "done",
                        !.reply = "done",
                        !.replies = Append(@, Reply("done", -1, -1))]
  /\ Step(IF ReplyAwaited THEN [IssueReply(Cur) EXCEPT !.rpc = "replyDone"] ELSE Cur)
  /\ side' = ResumeSide(side)
  /\ UNCHANGED <<hookVars, envVars, cacheVars, variant, allowlist, blocklist, sideCount, clock, timer, members,
                 offset, total, recipients, skipped, unhandled,
                 crashed, lateAdmit>>

(* --------------------- a recipient's task ("chain", "try", "perm") ---- *)
\* the task has settled: pendingCount--, the queue looks for the next task
TaskDone(h, u, pc) ==
  [h EXCEPT !.tp = [@ EXCEPT ![u] = pc], !.p = @ - 1]

\* What messages.isMessagesFromGroupAllowed answers: is_allowed 1, is_allowed
\* 0, or one of the errors of the API.
CheckAnswers == {"allowed", "denied"} \cup (Outcomes \ {"ok"})

canSendAnyway(resp) == TRUE

\* canSendMessage: `response.is_allowed === 1`, and false out of the catch
canSendMessage(resp) == resp = "allowed"

Ans(resp) == IF canSendMessage(resp) THEN "yes" ELSE "no"

\* canSendMessage returns inside the task; an error counts as not allowed.
CheckResponse(u, ans) ==
  /\ ~crashed
  /\ taskpc[u] = "check"
  /\ IF ans = "yes"
     THEN /\ Step([Cur EXCEPT !.tp = [@ EXCEPT ![u] = "send"],
                              !.sb = [@ EXCEPT ![u] = @ + 1],
                              !.rq = @ + 1])
          /\ skipped' = skipped
          /\ run' = run
     ELSE /\ Step(CountAndReport(TaskDone(Cur, u, "done")))
          /\ skipped' = skipped + 1
          /\ run' = ResumeIfIdle(run)
  /\ side' = ResumeSide(side)
  /\ UNCHANGED <<hookVars, envVars, cacheVars, variant, allowlist, blocklist, sideCount, clock, timer, members,
                 offset, total, recipients, unhandled, crashed,
                 lateAdmit, outside>>

\* `&& !dryRun` is part of the retry condition in part_000:375 and
\* part_001:209; index.js:298 and index.js:836 wait whatever dryRun is.
RetryChecksDryRun == variant \in {"perm", "seq"}

CaughtPcRethrow(e, dry) == IF ShouldRetry(e, dry) THEN "delay" ELSE "rejected"

\* The catch block of the task: wait and retry, or swallow the error.
CaughtPc(e, dry) ==
  IF ShouldRetry(e, dry /\ RetryChecksDryRun) THEN "delay" ELSE "done"

\* The first messages.send of the task returns.
SendResponse(u, outcome) ==
  /\ ~crashed
  /\ taskpc[u] = "send"
  /\ IF outcome = "ok"
     THEN /\ Step(IF Counted
                  THEN CountAndReport(TaskDone(Cur, u, "done"))
                  ELSE TaskDone(Cur, u, "done"))
          /\ run' = ResumeIfIdle(run)
          /\ UNCHANGED <<timer, unhandled>>
     ELSE LET pc == CaughtPc(outcome, run.dryRun)
              h == [Cur EXCEPT !.pr = IF variant = "perm" THEN @ + 1 ELSE @]
          IN IF pc = "delay"
                THEN /\ timer' = [timer EXCEPT ![u] = DelayOf(outcome)]
                     /\ Step([h EXCEPT !.tp = [@ EXCEPT ![u] = "delay"]])
                     /\ run' = run
                     /\ unhandled' = unhandled
                ELSE /\ timer' = timer
                     /\ Step(TaskDone(h, u, pc))
                     /\ run' = ResumeIfIdle(run)
                     /\ unhandled' = IF pc = "rejected" THEN unhandled \cup {u}
                                     ELSE unhandled
  /\ side' = ResumeSide(side)
  /\ UNCHANGED <<hookVars, envVars, cacheVars, variant, allowlist, blocklist, sideCount, clock, members, offset,
                 total, recipients, skipped, crashed, lateAdmit, outside>>

\* setTimeout(r, retry_after * 1000) has fired
TimerFired(u) == taskpc[u] = "delay" /\ timer[u] = 0

\* The retry: the same messages.send is issued again, inside the task
\* (index.js:302 sends only `if (!dryRun)`).
RetryFire(u) ==
  /\ ~crashed
  /\ TimerFired(u)
  /\ IF run.dryRun /\ variant = "try"
     THEN /\ Step(TaskDone(Cur, u, "done"))
          /\ run' = ResumeIfIdle(run)
     ELSE /\ Step([Cur EXCEPT !.tp = [@ EXCEPT ![u] = "retry"],
                              !.sb = [@ EXCEPT ![u] = @ + 1],
                              !.rq = @ + 1])
          /\ run' = run
  /\ side' = ResumeSide(side)
  /\ UNCHANGED <<hookVars, envVars, cacheVars, variant, allowlist, blocklist, sideCount, clock, timer, members, offset, total, recipients, skipped, unhandled,
                 crashed, lateAdmit, outside>>

RetryFailurePcAgain(e) == IF ShouldRetry(e, FALSE) THEN "delay" ELSE "rejected"

\* `return sendMessage(...)` out of the catch block: a failed retry rejects
\* the task's promise.
RetryFailurePc(e) == "rejected"

\* The retried messages.send returns.
RetryResponse(u, outcome) ==
  /\ ~crashed
  /\ taskpc[u] = "retry"
  /\ LET pc == IF outcome = "ok" THEN "done" ELSE RetryFailurePc(outcome)
     IN IF pc = "delay"
        THEN /\ timer' = [timer EXCEPT ![u] = RetryAfter]
             /\ Step([Cur EXCEPT !.tp = [@ EXCEPT ![u] = "delay"]])
             /\ run' = run
             /\ unhandled' = unhandled
        ELSE /\ timer' = timer
             /\ Step(TaskDone(Cur, u, pc))
             /\ run' = ResumeIfIdle(run)
             /\ unhandled' = IF pc = "rejected" THEN unhandled \cup {u} ELSE unhandled
  /\ side' = ResumeSide(side)
  /\ UNCHANGED <<hookVars, envVars, cacheVars, variant, allowlist, blocklist, sideCount, clock, members, offset,
                 total, recipients, skipped, crashed, lateAdmit, outside>>

\* Node ends the process on an unhandled rejection (the default since
\* Node 15); older versions only warn, which is the case of no Crash step.
Crash ==
  /\ ~crashed
  /\ unhandled # {}
  /\ crashed' = TRUE
  /\ UNCHANGED <<hookVars, envVars, cacheVars, variant, allowlist, blocklist, sideCount, clock, waiting, intervalCount,
                 pendingCount, taskpc, timer, run, side, members, offset,
                 total, recipients, processed, progress, skipped, sends, unhandled, lateAdmit,
                 outside, startLog, reqCount, sideCount>>

(* ------------------------ the sequential loop ("seq") ----------------- *)
\* `continue` / the end of the loop body: the next recipient's permission
\* check, or, after the last one, await queue.onIdle().
SeqNext(h) ==
  IF run.cur < Len(recipients)
  THEN /\ Step([AdmitCall(h) EXCEPT !.rpc = "sCheck", !.cu = recipients[run.cur + 1]])
       /\ run' = [run EXCEPT !.pc = "sCheck", !.cur = @ + 1]
  ELSE /\ Step([h EXCEPT !.rpc = "drain", !.cu = 0])
       /\ run' = AwaitIdle([run EXCEPT !.cur = @ + 1], "drain", "drained")

SeqCheckResponse(ans) ==
  /\ ~crashed
  /\ run.pc = "sCheck"
  /\ taskpc[CallId] = "flight"
  /\ IF ans = "yes"
     THEN /\ Step([AdmitCall(CallDone(Cur)) EXCEPT !.rpc = "sSend"])
          /\ run' = [run EXCEPT !.pc = "sSend"]
          /\ skipped' = skipped
     ELSE /\ SeqNext(CountAndReport(CallDone(Cur)))
          /\ skipped' = skipped + 1
  /\ side' = ResumeSide(side)
  /\ UNCHANGED <<hookVars, envVars, cacheVars, variant, allowlist, blocklist, sideCount, clock, timer, members,
                 offset, total, recipients, unhandled, crashed,
                 lateAdmit, outside>>

SeqSendResponse(outcome) ==
  /\ ~crashed
  /\ run.pc = "sSend"
  /\ taskpc[CallId] = "flight"
  /\ LET h == [CallDone(Cur) EXCEPT !.pr = @ + 1]
     IN IF outcome = "ok"
        THEN /\ SeqNext(CountAndReport(CallDone(Cur)))
             /\ timer' = timer
        ELSE IF CaughtPc(outcome, run.dryRun) = "delay"
                THEN /\ timer' = [timer EXCEPT ![CurUser] = DelayOf(outcome)]
                     /\ Step([h EXCEPT !.rpc = "sDelay"])
                     /\ run' = [run EXCEPT !.pc = "sDelay"]
                ELSE /\ timer' = timer
                     /\ SeqNext(h)
  /\ side' = ResumeSide(side)
  /\ UNCHANGED <<hookVars, envVars, cacheVars, variant, allowlist, blocklist, sideCount, clock, members, offset,
                 total, recipients, skipped, unhandled, crashed, lateAdmit,
                 outside>>

SeqRetryFire ==
  /\ ~crashed
  /\ run.pc = "sDelay"
  /\ timer[CurUser] = 0
  /\ Step([AdmitCall(Cur) EXCEPT !.rpc = "sRetry"])
  /\ run' = [run EXCEPT !.pc = "sRetry"]
  /\ side' = ResumeSide(side)
  /\ UNCHANGED <<hookVars, envVars, cacheVars, variant, allowlist, blocklist, sideCount, clock, timer, members,
                 offset, total, recipients, skipped, unhandled,
                 crashed, lateAdmit, outside>>

\* The retry is wrapped in its own try/catch: either outcome goes on.
SeqRetryResponse(outcome) ==
  /\ ~crashed
  /\ run.pc = "sRetry"
  /\ taskpc[CallId] = "flight"
  /\ SeqNext(CallDone(Cur))
  /\ side' = ResumeSide(side)
  /\ UNCHANGED <<hookVars, envVars, cacheVars, variant, allowlist, blocklist, sideCount, clock, timer, members,
                 offset, total, recipients, skipped, unhandled,
                 crashed, lateAdmit, outside>>

(* ------------------- a second command, run concurrently --------------- *)
Draining == run.pc \in {"drain", "drainEnum"}

SideIdle == [pc |-> "idle", offset |-> 0, cmd |-> "none"]

\* The commands followed while a broadcast command is being handled:
\* /gather_ids (index.js, part_000) and, next to the handler of index.js
\* 331-379, /test_broadcast; the help command (part_001).
SideCommands ==
  CASE variant = "try" -> {"gather", "test"}
    [] variant \in {"chain", "perm"} -> {"gather"}
    [] OTHER -> {"help"}

\* gather and test: the first page of groups.getMembers through the queue;
\* help: one reply through the queue.
SideStart(cmd) ==
  /\ ~crashed
  /\ side.pc = "idle"
  /\ sideCount < MaxSide
  /\ cmd \in SideCommands
  /\ sideCount' = sideCount + 1
  /\ side' = [pc |-> "call", offset |-> 0, cmd |-> cmd]
  /\ lateAdmit' = (lateAdmit \/ Draining)
  /\ outside' = ReplyOutside
  /\ Step([Cur EXCEPT !.tp = [@ EXCEPT ![SideId] = "queued"], !.w = Append(@, SideId)])
  /\ run' = run
  /\ UNCHANGED <<hookVars, envVars, cacheVars, variant, allowlist, blocklist, clock, timer, members,
                 offset, total, recipients, skipped, unhandled, crashed>>

\* A page (or the help reply) returns.  After the last page /gather_ids
\* replies and ends; /test_broadcast goes on once peer_list.json is written.
SideResponse(outcome) ==
  /\ ~crashed
  /\ taskpc[SideId] = "flight"
  /\ LET h == [Cur EXCEPT !.tp = [@ EXCEPT ![SideId] = "none"], !.p = @ - 1]
         forward == side.cmd = "forward" /\ side.offset = 0
         more == \/ /\ variant # "seq" /\ outcome = "ok"
                    /\ side.offset + PageSize < NumUsers
                 \/ forward
     IN IF more
        THEN /\ side' = [side EXCEPT !.offset = IF forward THEN 1 ELSE @ + PageSize]
             /\ lateAdmit' = (lateAdmit \/ Draining)
             /\ Step([h EXCEPT !.tp = [@ EXCEPT ![SideId] = "queued"],
                               !.w = Append(@, SideId)])
        ELSE /\ side' = IF side.cmd = "test" /\ outcome = "ok"
                        THEN [side EXCEPT !.pc = "loaded"] ELSE SideIdle
             /\ lateAdmit' = lateAdmit
             /\ Step(h)
  /\ run' = ResumeIfIdle(run)
  /\ UNCHANGED <<hookVars, envVars, cacheVars, variant, allowlist, blocklist, sideCount, clock, timer, members, offset,
                 total, recipients, skipped, unhandled, crashed, outside>>

\* /test_broadcast after its enumeration (index.js 390-419): filter, read the
\* template, broadcast(template, users, true): one dry-run task per filtered
\* member is added to the queue, then await queue.onIdle().
SidePrepare(tpl) ==
  /\ ~crashed
  /\ side.pc = "loaded"
  /\ LET n == IF TemplateUsable(tpl) THEN Len(Filter(Community)) ELSE 0
         h == [Cur EXCEPT !.w = @ \o [i \in 1..n |-> SideTask],
                          !.tp = [@ EXCEPT ![SideTask] = IF n > 0 THEN "queued" ELSE @]]
     IN /\ Step(h)
        /\ side' = IF TemplateUsable(tpl) /\ ~IdleNext
                   THEN [side EXCEPT !.pc = "drain"] ELSE SideIdle
        /\ lateAdmit' = (lateAdmit \/ (Draining /\ n > 0))
  /\ run' = ResumeIfIdle(run)
  /\ UNCHANGED <<hookVars, envVars, cacheVars, variant, allowlist, blocklist, sideCount, clock, timer, members, offset,
                 total, recipients, skipped, unhandled, crashed, outside>>

(* ---------------------- messages and list commands -------------------- *)
Senders == {1, 2}            \* from_id of a message: an admin and somebody else
ListArg == "2"               \* the <user_id> argument of a list command
ListCommands == {"block", "unblock", "allow", "unallow"}
Commands == {"broadcast", "test", "gather"} \cup ListCommands

\* /block_user, /unblock_user, /allow_user, /unallow_user of an admin
\* (index.js 425-543): the list is loaded, changed and saved, then the reply.
\* part_001 has no such commands, its lists are edited in the files.
ListCommand(cmd) ==
  /\ ~crashed
  /\ cmd \in ListCommands
  /\ sideCount < MaxSide
  /\ sideCount' = sideCount + 1
  /\ blocklist' = CASE cmd = "block" -> addTo(blocklist, ListArg)
                    [] cmd = "unblock" -> removeFrom(blocklist, ListArg)
                    [] OTHER -> blocklist
  /\ allowlist' = CASE cmd = "allow" -> addTo(allowlist, ListArg)
                    [] cmd = "unallow" -> removeFrom(allowlist, ListArg)
                    [] OTHER -> allowlist
  /\ outside' = ReplyOutside
  /\ UNCHANGED <<hookVars, envVars, cacheVars, variant, clock, waiting, intervalCount, pendingCount, taskpc, timer,
                 run, side, members, offset, total, recipients, processed, progress,
                 skipped, sends, unhandled, crashed, lateAdmit, startLog, reqCount>>

\* A message of somebody who is not an admin: 'Access denied' (index.js), or
\* the text is forwarded to the admins and acknowledged (part_000 573-586
\* with direct requests, part_001 334-345 through the queue).
Denied ==
  /\ ~crashed
  /\ outside' = ReplyOutside
  /\ IF variant = "seq"
     THEN /\ side.pc = "idle"
          /\ sideCount < MaxSide
          /\ sideCount' = sideCount + 1
          /\ side' = [pc |-> "call", offset |-> 0, cmd |-> "forward"]
          /\ lateAdmit' = (lateAdmit \/ Draining)
          /\ Step([Cur EXCEPT !.tp = [@ EXCEPT ![SideId] = "queued"],
                              !.w = Append(@, SideId)])
     ELSE /\ Step(Cur)
          /\ UNCHANGED <<sideCount, side, lateAdmit>>
  /\ UNCHANGED <<hookVars, envVars, cacheVars, variant, allowlist, blocklist, clock, timer, run, members,
                 offset, total, recipients, skipped, unhandled, crashed>>

\* A message arrives: every handler starts with the isAdmin check.
Message(sender, cmd) ==
  IF IsAdmin(sender)
  THEN \/ cmd = "broadcast" /\ StartRun(FALSE)
       \/ cmd = "test" /\ StartRun(TRUE)
       \/ cmd = "gather" /\ SideStart("gather")
       \/ variant # "seq" /\ ListCommand(cmd)
  ELSE Denied

\* blocklist.json or allowlist.json is edited by hand (part_001: the lists
\* are managed through the files)
ExternalEdit(cmd) ==
  /\ variant = "seq"
  /\ ListCommand(cmd)

(* ------------------------------ the system ---------------------------- *)
Next ==
  \/ Advance
  \/ \E dry \in BOOLEAN : StartRun(dry)
  \/ \E o \in {"ok", "err", "wfail"}, cnt \in 0..MaxTotal : PageResponse(o, cnt)
  \/ \E tpl \in {"ok", "empty", "unreadable"} : Prepare(tpl)
  \/ \E o \in {"ok", "err"} : StatusResponse(o)
  \/ \E o \in {"ok", "err"} : ReplyResponse(o)
  \/ Finish
  \/ \E u \in Users, resp \in CheckAnswers : CheckResponse(u, Ans(resp))
  \/ \E u \in Users, o \in Outcomes : SendResponse(u, o)
  \/ \E u \in Users : RetryFire(u)
  \/ \E u \in Users, o \in Outcomes : RetryResponse(u, o)
  \/ \E resp \in CheckAnswers : SeqCheckResponse(Ans(resp))
  \/ \E o \in Outcomes : SeqSendResponse(o)
  \/ SeqRetryFire
  \/ \E o \in Outcomes : SeqRetryResponse(o)
  \/ \E cmd \in {"gather", "test", "help"} : SideStart(cmd)
  \/ \E o \in {"ok", "err"} : SideResponse(o)
  \/ \E tpl \in {"ok", "empty", "unreadable"} : SidePrepare(tpl)
  \/ Crash

Spec == Init /\ [][Next]_vars

\* Every call returns and time advances; commands arrive and the process
\* ends on an unhandled rejection without any obligation.
FairSpec ==
  /\ Spec
  /\ WF_vars(Advance)
  /\ WF_vars(\E o \in {"ok", "err", "wfail"}, cnt \in 0..MaxTotal : PageResponse(o, cnt))
  /\ WF_vars(\E tpl \in {"ok", "empty", "unreadable"} : Prepare(tpl))
  /\ WF_vars(\E o \in {"ok", "err"} : StatusResponse(o))
  /\ WF_vars(\E o \in {"ok", "err"} : ReplyResponse(o))
  /\ WF_vars(Finish)
  /\ WF_vars(\E u \in Users, ans \in {"yes", "no"} : CheckResponse(u, ans))
  /\ WF_vars(\E u \in Users, o \in Outcomes : SendResponse(u, o))
  /\ WF_vars(\E u \in Users : RetryFire(u))
  /\ WF_vars(\E u \in Users, o \in Outcomes : RetryResponse(u, o))
  /\ WF_vars(\E ans \in {"yes", "no"} : SeqCheckResponse(ans))
  /\ WF_vars(\E o \in Outcomes : SeqSendResponse(o))
  /\ WF_vars(SeqRetryFire)
  /\ WF_vars(\E o \in Outcomes : SeqRetryResponse(o))
  /\ WF_vars(\E o \in {"ok", "err"} : SideResponse(o))
  /\ WF_vars(\E tpl \in {"ok", "empty", "unreadable"} : SidePrepare(tpl))

\* The bot with the messages of admins and of others and with changes of
\* the lists while a run lasts.
ListNext ==
  \/ Advance
  \/ \E sender \in Senders, cmd \in Commands : Message(sender, cmd)
  \/ \E cmd \in ListCommands : ExternalEdit(cmd)
  \/ \E o \in {"ok", "err", "wfail"}, cnt \in 0..MaxTotal : PageResponse(o, cnt)
  \/ \E tpl \in {"ok", "empty", "unreadable"} : Prepare(tpl)
  \/ \E o \in {"ok", "err"} : StatusResponse(o)
  \/ \E o \in {"ok", "err"} : ReplyResponse(o)
  \/ Finish
  \/ \E u \in Users, resp \in CheckAnswers : CheckResponse(u, Ans(resp))
  \/ \E u \in Users, o \in Outcomes : SendResponse(u, o)
  \/ \E u \in Users : RetryFire(u)
  \/ \E u \in Users, o \in Outcomes : RetryResponse(u, o)
  \/ \E resp \in CheckAnswers : SeqCheckResponse(Ans(resp))
  \/ \E o \in Outcomes : SeqSendResponse(o)
  \/ SeqRetryFire
  \/ \E o \in Outcomes : SeqRetryResponse(o)
  \/ \E o \in {"ok", "err"} : SideResponse(o)
  \/ Crash

ListSpec == Init /\ [][ListNext]_vars

(* ------------------------------ properties ---------------------------- *)
\* tasks started since the last interval tick
StartsInWindow == SumSeq(SubSeq(startLog, 1, clock + 1))

\* positions of a queue task that is admitted and has not settled
Unsettled == {"queued", "flight", "check", "send", "delay", "retry"}

\* C1 as stated: in any stretch of time as long as the interval, at most
\* intervalCap tasks begin execution.
C1_AnyInterval == SumSeq(startLog) <= IntervalCap

\* C1: between two consecutive interval ticks at most intervalCap tasks begin
\* execution, however many tasks are waiting.
C1_RateWindow == StartsInWindow <= IntervalCap

C1_Witness == waiting # <<>> /\ StartsInWindow = IntervalCap

\* C2: whenever an onIdle() of the run resolves, no admitted task is waiting
\* or executing, the tasks admitted while it was pending included.
C2_DrainWaits ==
  [][(\/ run.pc # "drained" /\ run'.pc = "drained"
      \/ run.pc \in {"enum", "drainEnum"} /\ run'.pc = "loaded" /\ variant = "seq")
     => /\ waiting' = <<>>
        /\ \A id \in TaskIds : taskpc'[id] \notin Unsettled]_vars

C2_Witness == run.pc = "drained" /\ lateAdmit /\ Len(recipients) = NumUsers

C4_AllThroughQueue == outside = {}

\* C5: during a live broadcast the requests issued by the queue's tasks
\* between two consecutive interval ticks, permission checks and retries
\* counted, never exceed intervalCap.
C5_RequestCeiling ==
  (~run.dryRun /\ run.pc \in {"drain", "sCheck", "sSend", "sDelay", "sRetry"})
    => reqCount <= IntervalCap

\* C6: messages.send is issued at most twice for every recipient of a run.
C6_AtMostTwoSends == \A u \in Users : sends[u] <= 2

C6_Witness == \E u \in Users : sends[u] = 2 /\ taskpc[u] \in {"done", "rejected"}

\* C7: a live send that fails with 429 and a retry_after of 0 is retried.
C7_RetryOnZeroHint ==
  [][/\ \A u \in Users : SendResponse(u, "t0") => taskpc'[u] \in {"delay", "retry"}
     /\ SeqSendResponse("t0") => run'.pc \in {"sDelay", "sRetry"}]_vars

\* C8: a failed retry never leaves a rejection of the task unhandled.
C8_NoUnhandledRejection == unhandled = {}

\* C9: a live send failing with an error that is not a throttle with a hint
\* is not retried and is caught in the task: the task settles fulfilled, the
\* run does not fail, and no other recipient's task is touched.
C9_OtherErrorConfined ==
  [][\A e \in {"err", "tnone"} :
       /\ \A u \in Users :
            SendResponse(u, e) =>
              /\ taskpc'[u] = "done"
              /\ sends'[u] = sends[u]
              /\ unhandled' = unhandled
              /\ run'.pc \in {"drain", "drained"}
              /\ \A v \in Users \ {u} :
                   \/ taskpc'[v] = taskpc[v]
                   \/ taskpc[v] = "queued" /\ taskpc'[v] \in {"check", "send"}
       /\ SeqSendResponse(e) =>
            /\ sends'[CurUser] = sends[CurUser]
            /\ unhandled' = unhandled
            /\ run'.pc \in {"sCheck", "drain", "drained"}]_vars

C9_Witness ==
  /\ variant = "try" /\ ~run.dryRun /\ run.pc = "done"
  /\ Len(recipients) = NumUsers /\ processed = NumUsers - 1
  /\ \A u \in Users : sends[u] = 1 /\ taskpc[u] = "done"

\* C10: a dry run issues no messages.send to any recipient.
C10_DryRunSendsNothing == run.dryRun => \A u \in Users : sends[u] = 0

C10_Witness == run.dryRun /\ run.pc = "done" /\ Len(recipients) = NumUsers

\* C11: in a dry run no recipient task waits for a retry-after delay and no
\* retry is issued, in the tasks and in the sequential loop alike.
C11_DryRunNoRetry ==
  run.dryRun =>
    /\ \A u \in Users : taskpc[u] \notin {"delay", "retry"} /\ timer[u] = 0
    /\ run.pc \notin {"sDelay", "sRetry"}

C11_Witness ==
  /\ run.dryRun /\ run.pc = "drain"
  /\ \E u, v \in Users : taskpc[u] = "done" /\ taskpc[v] = "queued"

(* ------------------------ filterUsers on its own ---------------------- *)
SeqsUpTo(S, n) == UNION {[1..k -> S] : k \in 0..n}

\* member lists, repetitions included
MemberLists == SeqsUpTo(Users, MaxListLen)

\* contents of allowlist.json and blocklist.json: string-encoded ids, one of
\* them, "01", the encoding of no member
IdStrings == {String(u) : u \in Users} \cup {"01"}
IdLists == SeqsUpTo(IdStrings, MaxListLen)

FilterInit ==
  /\ Booted
  /\ HookIdle
  /\ CacheStart
  /\ variant \in {"try", "chain"}
  /\ members \in MemberLists
  /\ allowlist \in IdLists
  /\ blocklist \in IdLists
  /\ clock = 0 /\ waiting = <<>> /\ intervalCount = 0 /\ pendingCount = 0
  /\ taskpc = [id \in TaskIds |-> "none"]
  /\ timer = [u \in Users |-> 0]
  /\ run = [pc |-> "idle", dryRun |-> FALSE, cur |-> 0, reply |-> "none", replies |-> <<>>]
  /\ side = [pc |-> "idle", offset |-> 0, cmd |-> "none"]
  /\ offset = 0 /\ total = -1 /\ recipients = <<>>
  /\ processed = 0 /\ progress = {} /\ skipped = 0 /\ sends = ZeroSends
  /\ unhandled = {} /\ crashed = FALSE /\ lateAdmit = FALSE /\ outside = {}
  /\ startLog = ZeroLog /\ reqCount = 0 /\ sideCount = 0

\* const filteredUsers = filterUsers(users)
ApplyFilter ==
  /\ run.pc = "idle"
  /\ recipients' = Filter(members)
  /\ run' = [run EXCEPT !.pc = "filtered"]
  /\ UNCHANGED <<hookVars, envVars, cacheVars, variant, allowlist, blocklist, clock, waiting, intervalCount,
                 pendingCount, taskpc, timer, side, members, offset, total,
                 processed, progress, skipped, sends, unhandled, crashed, lateAdmit,
                 outside, startLog, reqCount, sideCount>>

FilterSpec == FilterInit /\ [][ApplyFilter]_vars

Filtered == run.pc = "filtered"

\* the ids of a list of members, string-encoded
Ids(list) == {String(list[i]) : i \in 1..Len(list)}
Elems(list) == {list[i] : i \in 1..Len(list)}

\* r is m with some of its entries left out
RECURSIVE IsSubsequence(_, _)
IsSubsequence(r, m) ==
  IF r = <<>> THEN TRUE
  ELSE IF m = <<>> THEN FALSE
  ELSE IF Head(r) = Head(m) THEN IsSubsequence(Tail(r), Tail(m))
  ELSE IsSubsequence(r, Tail(m))

\* how many entries of a list are u
Count(list, u) == Cardinality({i \in 1..Len(list) : list[i] = u})

\* C12: no member whose string-encoded id is in the blocklist is in the
\* result of filterUsers, whether or not the id is in the allowlist too.
C12_BlockOverridesAllow ==
  Filtered => Ids(recipients) \cap Elems(blocklist) = {}

C12_Witness ==
  /\ Filtered
  /\ \E u \in Elems(members) : String(u) \in Elems(allowlist) \cap Elems(blocklist)
  /\ recipients # <<>>

\* C13: with a non-empty allowlist and an empty blocklist the result holds
\* exactly the members whose string-encoded id is in the allowlist, each as
\* often as in the member list and in its order.
C13_AllowGating ==
  (Filtered /\ allowlist # <<>> /\ blocklist = <<>>) =>
    /\ IsSubsequence(recipients, members)
    /\ \A u \in Users :
         Count(recipients, u) =
           IF String(u) \in Elems(allowlist) THEN Count(members, u) ELSE 0

C13_Witness ==
  /\ Filtered /\ allowlist # <<>> /\ blocklist = <<>>
  /\ recipients # <<>> /\ Len(recipients) < Len(members)

\* C14: with both lists empty filterUsers returns the member list unchanged.
C14_Identity ==
  (Filtered /\ allowlist = <<>> /\ blocklist = <<>>) => recipients = members

C14_Witness ==
  Filtered /\ allowlist = <<>> /\ blocklist = <<>> /\ Len(recipients) = MaxListLen

\* C15: the result is the member list, in its order, gated by the allowlist
\* (when it is not empty) and then stripped of the blocked ids, and the
\* one-pass and the two-pass filterUsers return the same list.
C15_TwoStepAndEquivalent ==
  Filtered =>
    /\ IsSubsequence(recipients, members)
    /\ \A u \in Users :
         Count(recipients, u) =
           IF /\ (allowlist = <<>> \/ String(u) \in Elems(allowlist))
              /\ String(u) \notin Elems(blocklist)
           THEN Count(members, u) ELSE 0
    /\ filterUsers(members, allowlist, blocklist)
         = filterUsersTwoPass(members, allowlist, blocklist)

C15_Witness ==
  /\ Filtered /\ variant = "chain"
  /\ allowlist # <<>> /\ blocklist # <<>>
  /\ recipients # <<>> /\ Len(recipients) < Len(members)

(* --------------------------- the enumerator --------------------------- *)
\* ceil(t / PageSize), and 1 for an empty community
PagesFor(t) == IF t = 0 THEN 1 ELSE (t + PageSize - 1) \div PageSize

\* the handler's page request is admitted and not answered
PageRequested == taskpc[CallId] \in {"queued", "flight"}

IsPrefix(a, b) == Len(a) <= Len(b) /\ a = SubSeq(b, 1, Len(a))

\* C16: the enumeration starts with the request for offset 0, every answered
\* page moves the offset on by the page size, and the enumeration requests
\* another page exactly while fewer than ceil(total / page size) pages (one
\* page for total 0) have been answered: it ends after exactly that many.
C16_PageCount ==
  [][/\ (run.pc # "enum" /\ run'.pc = "enum") => (offset' = 0 /\ PageRequested')
     /\ \A c \in 0..MaxTotal :
          PageResponse("ok", c) =>
            /\ offset' = offset + PageSize
            /\ IF run'.pc = "enum"
               THEN PageRequested' /\ offset' \div PageSize < PagesFor(total')
               ELSE ~PageRequested' /\ offset' \div PageSize = PagesFor(total')]_vars

C16_Witness == run.pc = "loaded" /\ total = 3 /\ offset = 2 * PageSize

\* C17: the bound of the loop is the count of the first response whatever the
\* later responses report or return, the loop goes on exactly while the
\* offset is below it, and the offset grows with every page, so that the
\* bound is reached.
C17_FirstCountBounds ==
  [][\A c \in 0..MaxTotal :
       PageResponse("ok", c) =>
         /\ total' = IF total = -1 THEN c ELSE total
         /\ offset' > offset
         /\ run'.pc = "enum" <=> offset' < total'
         /\ run'.pc # "enum" => (offset < total' \/ offset = 0)]_vars

C17_Witness ==
  run.pc = "loaded" /\ total = MaxTotal /\ Len(members) < total /\ offset >= total

\* C18: pages are requested in increasing offset order, a page is requested
\* only in the step in which the page before it was answered and its items
\* appended, and the members gathered are the community in offset order.
C18_PagesInOrder ==
  [][/\ (run.pc = "enum" /\ run'.pc = "enum" /\ PageRequested' /\ offset' # offset)
          => /\ taskpc[CallId] = "flight"
             /\ offset' = offset + PageSize
             /\ IsPrefix(members, members')
     /\ IsPrefix(members', Community)
     /\ run.pc = "enum" => PageRequested]_vars

C18_Witness ==
  /\ run.pc = "enum" /\ offset = PageSize /\ taskpc[CallId] = "flight"
  /\ Len(members) = PageSize

(* ------------------------------ C19 ----------------------------------- *)
\* the step in which the enumeration fails (a page request fails, or the
\* write of peer_list.json after the last page does)
EnumerationFails ==
  \E c \in 0..MaxTotal : PageResponse("err", c) \/ PageResponse("wfail", c)

\* the step in which the template file turns out unreadable or empty
TemplateFails == Prepare("unreadable") \/ Prepare("empty")

Aborted == run.pc \in {"replyFail", "failed"} /\ run.reply = "fail"

\* C19: when the member enumeration fails, or the template file cannot be
\* read or is empty after trimming, the run is aborted in that very step with
\* the failure reply issued to the invoker, no recipient has a send task,
\* nothing was sent, and no recipient gets a task while the run stays aborted.
C19_AbortBeforeDispatch ==
  [][ /\ (EnumerationFails \/ TemplateFails) =>
           /\ Aborted'
           /\ "reply" \in outside' \/ taskpc'[CallId] # "none"
           /\ recipients' = <<>>
           /\ \A u \in Users : taskpc'[u] = "none" /\ sends'[u] = 0
      /\ (Aborted /\ Aborted') =>
           \A u \in Users : taskpc'[u] = taskpc[u] /\ sends'[u] = sends[u]
    ]_vars

\* a run aborted on the template after a complete enumeration of members
C19_Witness ==
  /\ Aborted
  /\ total = NumUsers
  /\ Len(members) = NumUsers
  /\ recipients = <<>>
  /\ \A u \in Users : taskpc[u] = "none"

(* ------------------------------ C20 ----------------------------------- *)
\* the phase of the run the handler is in
Phase(pc) ==
  CASE pc = "idle" -> 0
    [] pc \in {"reply1", "enum", "drainEnum"} -> 1                \* Enumerating
    [] pc \in {"loaded", "replyStatus"} -> 2                      \* Filtering
    [] pc \in {"sCheck", "sSend", "sDelay", "sRetry"} -> 3        \* Dispatching
    [] pc = "drain" -> 4                                          \* Draining
    [] pc \in {"drained", "replyDone"} -> 5            \* the drain has resolved
    [] pc = "done" -> 6                                           \* Done
    [] pc \in {"replyFail", "failed"} -> 7                        \* Failed
    [] OTHER -> 8

\* every page up to the member count of the first page has been requested
EnumerationComplete == total # -1 /\ offset >= total

\* C20: a run moves through Enumerating, Filtering, Dispatching, Draining and
\* Done in that order or ends in Failed, and only a new run leaves Done or
\* Failed; a recipient gets a send task only once the enumeration has completed
\* and the filter has been applied, being one of the filtered recipients; the
\* completion reply is issued only after the drain has resolved, which happens
\* only with the queue empty and nothing executing.
C20_PhaseOrder ==
  [][ /\ Phase(run'.pc) <= 7
      /\ IF run.pc \in {"idle", "done", "failed"}
         THEN run'.pc = run.pc \/ (Phase(run'.pc) = 1 /\ run'.reply = "start")
         ELSE Phase(run'.pc) >= Phase(run.pc)
      /\ \A u \in Users :
           (taskpc[u] = "none" /\ taskpc'[u] # "none") =>
              /\ Phase(run.pc) \in {2, 3}
              /\ EnumerationComplete
              /\ recipients' = Filter(members)
              /\ \E i \in 1..Len(recipients') : recipients'[i] = u
      /\ (run.reply # "done" /\ run'.reply = "done") => run.pc = "drained"
      /\ (run.pc # "drained" /\ run'.pc = "drained") =>
              /\ Phase(run.pc) \in {2, 3, 4}
              /\ waiting' = <<>> /\ pendingCount' = 0
    ]_vars

\* a completed real run over more than one page in which a message was sent
C20_Witness ==
  /\ run.pc = "done" /\ run.reply = "done" /\ ~run.dryRun
  /\ offset > PageSize
  /\ \E u \in Users : taskpc[u] = "done" /\ sends[u] > 0

(* ------------------------------ C21 ----------------------------------- *)
TracksSkips == variant \in {"perm", "seq"}

\* the run has ended: sendBroadcast's onIdle() has resolved
RunEnded == run.pc \in {"drained", "replyDone", "done"}

\* the step in which a permission check returns something other than allowed
CheckRefused ==
  \/ \E u \in Users : CheckResponse(u, "no")
  \/ SeqCheckResponse("no")

\* C21: in the variants that track skips, when a run has ended processed is
\* the number of filtered recipients and skipped is at most processed, so that
\* sent = processed - skipped and sent + skipped = processed; in a dry run
\* skipped = 0; skipped grows by one exactly in the steps in which a
\* recipient's permission check does not return allowed, and is otherwise
\* only reset by a new run.
C21_Accounting ==
  [][TracksSkips =>
       /\ RunEnded' =>
            /\ processed' = Len(recipients')
            /\ skipped' \in 0..processed'
            /\ run'.dryRun => skipped' = 0
       /\ CheckRefused => (skipped' = skipped + 1 /\ ~run.dryRun)
       /\ skipped' # skipped =>
            \/ CheckRefused
            \/ run.pc \in {"idle", "done", "failed"} /\ skipped' = 0
    ]_vars

\* a live run has ended with one recipient sent to and one skipped
C21_Witness ==
  /\ TracksSkips /\ RunEnded /\ ~run.dryRun
  /\ processed = 2 /\ skipped = 1
  /\ \E u \in Users : sends[u] > 0

(* ------------------------------ C22 ----------------------------------- *)
\* `${processed - skipped} отправлено`: the sent count the run reports
SentCount == processed - skipped

\* the step in which a live send fails for good: an error that is not
\* retried, or the failure of the retry
PermanentFailure ==
  \E e \in Outcomes \ {"ok"} :
    \/ \E u \in Users : SendResponse(u, e) /\ CaughtPc(e, run.dryRun) # "delay"
    \/ \E u \in Users : RetryResponse(u, e)
    \/ SeqSendResponse(e) /\ CaughtPc(e, run.dryRun) # "delay"
    \/ SeqRetryResponse(e)

\* C22: in the variants that report sent and skipped counts, the step in
\* which a recipient's live send fails permanently counts the recipient as
\* skipped and adds nothing to the sent count.
C22_FailureNotCountedSent ==
  [][(TracksSkips /\ ~run.dryRun /\ PermanentFailure) =>
        /\ skipped' = skipped + 1
        /\ SentCount' <= SentCount]_vars

(* ------------------------------ C23 ----------------------------------- *)
\* C23: in the variants that log progress, once a run over at least one
\* recipient has ended, a progress line was logged for the last completion
\* (processed = total) and for every ProgressEvery-th completion, whether the
\* sends succeeded or failed.
C23_ProgressCadence ==
  (Counted /\ RunEnded /\ Len(recipients) >= 1) =>
     /\ Len(recipients) \in progress
     /\ \A v \in 1..Len(recipients) : v % ProgressEvery = 0 => v \in progress

(* ------------------------------ C24 ----------------------------------- *)
\* the handler of the broadcast command is between its start and its end
RunInProgress == run.pc \notin {"idle", "done", "failed"}

\* the handler of a second, test-broadcast command is enumerating, has
\* admitted its tasks or is draining
SecondRunInProgress == side.cmd = "test" /\ side.pc # "idle"

\* C24: at most one broadcast run is in progress at any time: while the run
\* of one broadcast command is in progress, no other broadcast or
\* test-broadcast command enumerates members or has tasks admitted.
C24_OneRunAtATime == ~(RunInProgress /\ SecondRunInProgress)

(* ------------------------------ C25 ----------------------------------- *)
\* the recipient's task has begun execution
Begun(u) == taskpc[u] \notin {"none", "queued"}

\* C25: the tasks of a run's recipients begin execution in the order of the
\* filtered recipient list, in which they were submitted: whenever a
\* recipient's task has begun, the task of every earlier recipient has begun.
C25_StartInSubmissionOrder ==
  Parallel =>
    \A i, j \in 1..Len(recipients) :
      (i < j /\ Begun(recipients[j])) => Begun(recipients[i])

\* a later recipient's task has completed while an earlier one's has not
C25_Witness ==
  /\ Parallel /\ Len(recipients) = 2
  /\ taskpc[recipients[2]] = "done"
  /\ taskpc[recipients[1]] \in {"check", "send", "delay", "retry"}

(* ------------------------------ C26 ----------------------------------- *)
\* the step of a list command of an admin, or of an edit of a list file
ListChangeStep == \E cmd \in ListCommands : ListCommand(cmd)

\* C26: a broadcast run, live or dry, never writes the allowlist or the
\* blocklist: the stored lists change only in the step of an administrative
\* list command, never in a step of the run, of the queue or of time.
C26_RunNeverWritesLists ==
  [][(allowlist' # allowlist \/ blocklist' # blocklist) => ListChangeStep]_vars

\* a live run has completed over a filtered list, with no list command since
\* it started
C26_Witness ==
  /\ run.pc = "done" /\ ~run.dryRun /\ sideCount = 0
  /\ blocklist # <<>> /\ Len(recipients) >= 1
  /\ Len(recipients) < Len(members)

(* ------------------------------ C27 ----------------------------------- *)
\* C27: the recipients of a run are what the filter gave at the run's filter
\* step: they are set only there (and emptied by a new run), a change of the
\* lists afterwards leaves the recipients and their tasks as they are, and
\* every send of the run goes to one of those recipients, in the sequential
\* loop to the recipient whose turn it is.
C27_Snapshot ==
  [][ /\ ListChangeStep =>
           /\ recipients' = recipients
           /\ run' = run
           /\ \A u \in Users : taskpc'[u] = taskpc[u]
      /\ recipients' # recipients =>
           \/ run.pc \in {"idle", "done", "failed"} /\ recipients' = <<>>
           \/ run.pc \in {"loaded", "replyStatus"}
      /\ \A u \in Users : sends'[u] > sends[u] =>
           /\ Includes(recipients', u)
           /\ variant = "seq" => u = recipients'[run'.cur]
    ]_vars

\* a member was blocked after the filter step of a live run and was sent the
\* message all the same
C27_Witness ==
  /\ RunEnded /\ ~run.dryRun /\ sideCount = 1
  /\ Includes(blocklist, "2")
  /\ Includes(recipients, 2) /\ sends[2] > 0

(* ------------------------------ C28 ----------------------------------- *)
\* a message of a sender who is not in the admin list is handled
StrangerMessage ==
  \E sender \in Senders \ ADMIN_IDS, cmd \in Commands : Message(sender, cmd)

\* C28: whatever the command, a message of a user who is not in the admin
\* list starts no member enumeration and no broadcast run and changes neither
\* list: the run, its page requests, members and recipients, every
\* recipient's task and both lists are as before, and no enumeration of a
\* second command is started.
C28_AdminOnly ==
  [][StrangerMessage =>
       /\ allowlist' = allowlist /\ blocklist' = blocklist
       /\ run' = run
       /\ members' = members /\ offset' = offset /\ total' = total
       /\ recipients' = recipients
       /\ taskpc'[CallId] = taskpc[CallId]
       /\ \A u \in Users : taskpc'[u] = taskpc[u] /\ sends'[u] = sends[u]
       /\ side'.cmd \notin {"gather", "test"} \/ side' = side
    ]_vars

\* a stranger's message has been answered and nothing was started
C28_Witness ==
  /\ "reply" \in outside
  /\ run.pc = "idle" /\ run.reply = "none"
  /\ side.pc = "idle" /\ sideCount = 0
  /\ members = <<>>

(* ------------------------------ C29 ----------------------------------- *)
LastReply == run.replies[Len(run.replies)]

Kinds == {run.replies[i].kind : i \in 1..Len(run.replies)}

\* the reply sequence of a run whose enumeration failed: the failure reply
\* last, and no status reply
FailedEnumerationReplies ==
  (Aborted /\ run.pc = "failed" /\ total = -1) =>
     LastReply.kind = "fail" /\ "status" \notin Kinds

\* the reply sequence of a completed live run: a status reply carrying the
\* number of recipients, zero exactly when none matched
CompletedRunReplies ==
  (run.pc = "done" /\ run.reply = "done") =>
     \E i \in 1..Len(run.replies) :
        /\ run.replies[i] = Reply("status", Len(recipients), Len(members) - Len(recipients))
        /\ (run.replies[i].n = 0) <=> (recipients = <<>>)

\* the completion reply reports the number sent and the number skipped
CompletionReportsTotals ==
  (run.pc = "done" /\ run.reply = "done") =>
     LastReply.n = SentCount /\ LastReply.m = skipped

\* C29: the replies to the invoker tell the three outcomes of a live run
\* apart: a run whose enumeration failed ends with the failure reply and has
\* no status reply; a completed run over zero recipients and a completed run
\* over some differ in the count of the status reply; and the last reply of
\* a completed run reports the number sent and the number skipped.
C29_OutcomesDistinguishable ==
  (TracksSkips /\ ~run.dryRun) =>
    /\ FailedEnumerationReplies
    /\ CompletedRunReplies
    /\ CompletionReportsTotals

(* --------------------- the list cache (index.js 36-120) ---------------- *)
\* Number(s) of the strings the model uses: NaN, an integer or a fraction
\* (val is its integer part)
Num(kind, val) == [kind |-> kind, val |-> val]
NaN == Num("nan", 0)

ToNumber(f) ==
  CASE f = "" -> Num("int", 0)
    [] f = "0" -> Num("int", 0)
    [] f = "-5" -> Num("int", -5)
    [] f = "1.5" -> Num("frac", 1)
    [] f = "7" -> Num("int", 7)
    [] f = "1" -> Num("int", 1)
    [] f = "01" -> Num("int", 1)
    [] f = "2" -> Num("int", 2)
    [] OTHER -> NaN

isNaN(n) == n.kind = "nan"

\* !isNaN(numericId) && numericId > 0 && Number.isInteger(numericId)
isValidUserId(userId) ==
  LET numericId == ToNumber(userId)
  IN ~isNaN(numericId) /\ numericId.val > 0 /\ numericId.kind = "int"

\* !blocklist.includes(userIdStr)
Absent(list, id) == ~Includes(list, id)

\* Every variable of the run, which the list functions leave alone.
botVars == <<variant, allowlist, clock, waiting, intervalCount, pendingCount,
             taskpc, timer, run, side, members, offset, total, recipients,
             processed, progress, skipped, sends, unhandled, crashed, lateAdmit,
             outside, startLog, reqCount, sideCount>>

runVars == <<hookVars, envVars, botVars>>

\* `blocklistCache && blocklistLastModified >= lastModified`
CacheHit == ~blocklistCache.null /\ blocklistLastModified >= blocklistMtime

\* The cache after loadBlocklist(): c is the cached array and its stamp.
\* ok is whether statSync, readFileSync and JSON.parse went through.
Load(ok) ==
  IF ~ok THEN [data |-> <<>>, stamp |-> 0]
  ELSE IF CacheHit THEN [data |-> blocklistCache.data, stamp |-> blocklistLastModified]
  ELSE [data |-> blocklist, stamp |-> blocklistMtime]

\* loadBlocklist() called by a command or by filterUsers
LoadBlocklist(ok) ==
  /\ blocklistCache' = Cached(Load(ok).data)
  /\ blocklistLastModified' = Load(ok).stamp
  /\ loaded' = Load(ok).data
  /\ UNCHANGED <<runVars, blocklist, blocklistMtime, now, returned>>

\* saveBlocklist(list): the file is written, then the cache and Date.now()
\* are stored; later is the time that passes between the two.  A failing
\* writeFileSync leaves file and stamp as they are.
Save(list, stamp, writeOk, later) ==
  IF writeOk
  THEN /\ blocklist' = list
       /\ blocklistMtime' = now
       /\ now' = now + later
       /\ blocklistCache' = Cached(list)
       /\ blocklistLastModified' = now + later
  ELSE /\ blocklistLastModified' = stamp
       /\ UNCHANGED <<blocklist, blocklistMtime, now>>

\* addToBlocklist(userId): blocklist.push(id) changes the array that
\* loadBlocklist returned, which is the cached array itself.
addToBlocklist(id, ok, writeOk, later) ==
  /\ now + later <= MaxNow
  /\ LET l == Load(ok)
     IN IF ~isValidUserId(id)
        THEN /\ returned' = "threw"
             /\ UNCHANGED <<blocklist, blocklistMtime, now, blocklistCache,
                            blocklistLastModified>>
        ELSE IF Absent(l.data, id)
        THEN /\ Save(Append(l.data, id), l.stamp, writeOk, later)
             /\ IF writeOk THEN TRUE ELSE blocklistCache' = Cached(Append(l.data, id))
             /\ returned' = IF writeOk THEN "true" ELSE "threw"
        ELSE /\ blocklistCache' = Cached(l.data)
             /\ blocklistLastModified' = l.stamp
             /\ returned' = "false"
             /\ UNCHANGED <<blocklist, blocklistMtime, now>>
  /\ UNCHANGED <<runVars, loaded>>

\* removeFromBlocklist(userId): filter() makes a new array
removeFromBlocklist(id, ok, writeOk, later) ==
  /\ now + later <= MaxNow
  /\ LET l == Load(ok)
     IN IF Includes(l.data, id)
        THEN /\ Save(removeFrom(l.data, id), l.stamp, writeOk, later)
             /\ IF writeOk THEN TRUE ELSE blocklistCache' = Cached(l.data)
             /\ returned' = IF writeOk THEN "true" ELSE "threw"
        ELSE /\ blocklistCache' = Cached(l.data)
             /\ blocklistLastModified' = l.stamp
             /\ returned' = "false"
             /\ UNCHANGED <<blocklist, blocklistMtime, now>>
  /\ UNCHANGED <<runVars, loaded>>

\* blocklist.json is rewritten from outside the bot, at the current time
FileModified(list) ==
  /\ list # blocklist
  /\ blocklist' = list
  /\ blocklistMtime' = now
  /\ UNCHANGED <<runVars, blocklistCache, blocklistLastModified, now, loaded, returned>>

\* time passes
Tick ==
  /\ now < MaxNow
  /\ now' = now + 1
  /\ UNCHANGED <<runVars, blocklist, blocklistMtime, blocklistCache,
                 blocklistLastModified, loaded, returned>>

\* index.js, both lists empty at the start
CacheInit == Init /\ variant \in {"chain", "try"} /\ allowlist = <<>> /\ blocklist = <<>>

\* the ids given to the list commands, and the lists written from outside
CacheIds == {String(u) : u \in Users}
OutsideLists == {<<>>} \cup {<<id>> : id \in CacheIds}

CacheNext ==
  \/ Tick
  \/ \E ok \in BOOLEAN : LoadBlocklist(ok)
  \/ \E id \in CacheIds, ok, writeOk \in BOOLEAN, later \in 0..1 :
        addToBlocklist(id, ok, writeOk, later)
  \/ \E id \in CacheIds, ok, writeOk \in BOOLEAN, later \in 0..1 :
        removeFromBlocklist(id, ok, writeOk, later)
  \/ \E list \in OutsideLists : FileModified(list)

CacheSpec == CacheInit /\ [][CacheNext]_vars

(* ------------------------------ C30 ----------------------------------- *)
\* C30: whatever saves through the bot and outside modifications of
\* blocklist.json came before, a loadBlocklist() that reads without error
\* returns the list stored in the file at that moment.
C30_LoadReturnsStoredList ==
  [][LoadBlocklist(TRUE) => loaded' = blocklist]_vars

(* ------------------------------ C31 ----------------------------------- *)
\* recipient u's permission check returns with the answer resp
Checked(u, resp) ==
  \/ CheckResponse(u, Ans(resp))
  \/ variant = "seq" /\ CurUser = u /\ SeqCheckResponse(Ans(resp))

\* the step continues a task whose permission check had returned allowed: the
\* send waits in the queue or is being retried
AfterAllowed(u) ==
  \/ taskpc[u] \in {"delay", "retry"}
  \/ variant = "seq" /\ CurUser = u /\ run.pc \in {"sSend", "sDelay", "sRetry"}

\* C31: in a live run of the variants that check the permission, a
\* messages.send to a recipient is issued only in or after the step in which
\* the recipient's check returned allowed; when the check returns not allowed
\* or fails with an error, a throttle error included, no send is issued, the
\* recipient is counted as skipped and its task is over.
C31_SendOnlyIfAllowed ==
  [][(TracksSkips /\ ~run.dryRun) =>
       \A u \in Users :
         /\ sends'[u] > sends[u] => (Checked(u, "allowed") \/ AfterAllowed(u))
         /\ \A resp \in CheckAnswers \ {"allowed"} :
              Checked(u, resp) =>
                /\ sends'[u] = sends[u]
                /\ skipped' = skipped + 1
                /\ ~AfterAllowed(u)'
                /\ variant = "perm" => taskpc'[u] = "done"
                /\ variant = "seq" => run'.cur = run.cur + 1
    ]_vars

\* one recipient's check has failed or refused and it was skipped without a
\* send, the other one was sent to
C31_Witness ==
  /\ TracksSkips /\ ~run.dryRun /\ skipped = 1
  /\ \E u, v \in Users : sends[u] = 0 /\ sends[v] > 0
  /\ RunEnded

(* ------------------------------ C32 ----------------------------------- *)
\* broadcast() has filtered and admitted the run's send tasks
Dispatched ==
  run.pc \in {"drain", "drained", "replyDone", "done", "sCheck", "sSend", "sDelay", "sRetry"}

\* C32: once the run has admitted its send tasks, the count announced in the
\* status reply is the number of recipients the run admitted a task for, list
\* commands of other admins handled in between included.
C32_AnnouncedIsAdmitted ==
  Dispatched =>
    \A i \in 1..Len(run.replies) :
      run.replies[i].kind = "status" => run.replies[i].n = Len(recipients)

(* ------------------------------ C33 ----------------------------------- *)
\* an add or remove command during which writing blocklist.json fails
WriteFails ==
  \E id \in CacheIds, ok \in BOOLEAN :
     \/ addToBlocklist(id, ok, FALSE, 0)
     \/ removeFromBlocklist(id, ok, FALSE, 0)

\* C33: when the write of the list file fails during an add or remove
\* command, the file is unchanged and a load after the command returns what a
\* load before it would have returned: the cached list has not taken the
\* change.
C33_FailedWriteChangesNothing ==
  [][WriteFails => (blocklist' = blocklist /\ Load(TRUE).data' = Load(TRUE).data)]_vars

(* -------------------- start of the process (index.js 8-26) ------------- *)
\* A value of process.env.VK_TOKEN or VK_GROUP_ID: unset, empty, or set.
EnvValues == {"unset", "", "t"}

\* The comma-separated fields ADMIN_IDS may hold.
Fields == {"", "x", "0", "-5", "1.5", "7"}

\* process.env.ADMIN_IDS: unset, or its fields.  The empty string is the one
\* empty field.
AdminEnvs == {<<"unset">>} \cup {<<f>> : f \in Fields} \cup {<<f, g>> : f, g \in Fields}

\* (process.env.ADMIN_IDS || '').split(',')
SplitAdmins(a) == IF a = <<"unset">> THEN <<"">> ELSE a

\* .map(Number)
AdminList(a) == [i \in 1..Len(SplitAdmins(a)) |-> ToNumber(SplitAdmins(a)[i])]

\* `!TOKEN`, `!GROUP_ID`: unset and the empty string are falsy
Missing(v) == v \in {"unset", ""}

\* ADMIN_IDS.length === 0 || ADMIN_IDS.every(id => isNaN(id))
NoAdmins(l) == Len(l) = 0 \/ \A i \in 1..Len(l) : isNaN(l[i])

\* The validation at the top of the module: process.exit(1) or go on.
Startup ==
  /\ boot = "starting"
  /\ boot' = IF Missing(env.token) \/ Missing(env.group) \/ NoAdmins(AdminList(env.admins))
             THEN "exited" ELSE "running"
  /\ UNCHANGED <<hookVars, env, cacheVars, variant, allowlist, blocklist, clock, waiting,
                 intervalCount, pendingCount, taskpc, timer, run, side, members,
                 offset, total, recipients, processed, progress, skipped, sends,
                 unhandled, crashed, lateAdmit, outside, startLog, reqCount,
                 sideCount>>

StartInit ==
  /\ env \in [token : EnvValues, group : EnvValues, admins : AdminEnvs]
  /\ boot = "starting"
  /\ HookIdle
  /\ Constructed
  /\ variant \in {"chain", "try"} /\ allowlist = <<>> /\ blocklist = <<>>

StartSpec == StartInit /\ [][Startup]_vars

(* ------------------------------ C34 ----------------------------------- *)
\* a user id: a positive integer
ValidAdminId(n) == n.kind = "int" /\ n.val > 0

\* C34: a process that has passed the validation has VK_TOKEN and
\* VK_GROUP_ID set and ADMIN_IDS holding at least one valid user id; with
\* ADMIN_IDS unset, empty or without a valid id the process has exited.
C34_RunningHasAdmin ==
  boot = "running" =>
    /\ ~Missing(env.token)
    /\ ~Missing(env.group)
    /\ \E i \in 1..Len(AdminList(env.admins)) : ValidAdminId(AdminList(env.admins)[i])

(* ------------- the list commands alone (index.js 425-497) -------------- *)
\* the arguments given to /block_user and /unblock_user
ListArgs == IdStrings \cup {"x", "-5"}

\* /clear_blocklist: saveBlocklist([])
clearBlocklist(later) ==
  /\ now + later <= MaxNow
  /\ Save(<<>>, blocklistLastModified, TRUE, later)
  /\ UNCHANGED <<runVars, loaded, returned>>

\* index.js with no allowlist; the stored blocklist has no duplicate
ListOpsInit == Init /\ variant \in {"chain", "try"} /\ allowlist = <<>>

\* Commands in any order, every read and write of the file going through.
ListOpsNext ==
  \/ Tick
  \/ LoadBlocklist(TRUE)
  \/ \E id \in ListArgs, later \in 0..1 : addToBlocklist(id, TRUE, TRUE, later)
  \/ \E id \in ListArgs, later \in 0..1 : removeFromBlocklist(id, TRUE, TRUE, later)
  \/ \E later \in 0..1 : clearBlocklist(later)

ListOpsSpec == ListOpsInit /\ [][ListOpsNext]_vars

(* ------------------------------ C35 ----------------------------------- *)
\* the user ids the entries of a list denote
IdOf(entry) == ToNumber(entry).val

NoDuplicateEntry(list) ==
  \A i, j \in 1..Len(list) : list[i] = list[j] => i = j

NoDuplicateId(list) ==
  \A i, j \in 1..Len(list) : IdOf(list[i]) = IdOf(list[j]) => i = j

HoldsId(list, id) == \E i \in 1..Len(list) : IdOf(list[i]) = IdOf(id)

AddStep(id) == \E later \in 0..1 : addToBlocklist(id, TRUE, TRUE, later)
RemoveStep(id) == \E later \in 0..1 : removeFromBlocklist(id, TRUE, TRUE, later)

\* The list entry by entry: no entry is stored twice, an add returns true
\* exactly when the entry was absent, a remove exactly when it was present.
EntryWise ==
  [][/\ NoDuplicateEntry(blocklist')
     /\ \A id \in ListArgs :
          /\ (AddStep(id) /\ isValidUserId(id)) =>
                /\ returned' = "true" <=> ~Includes(blocklist, id)
                /\ Includes(blocklist', id)
          /\ RemoveStep(id) =>
                /\ returned' = "true" <=> Includes(blocklist, id)
                /\ ~Includes(blocklist', id)]_vars

\* C35: whatever add, remove and clear commands came before, the blocklist
\* holds no user id twice; an add of a valid id returns true exactly when the
\* list did not hold the id and the list holds it afterwards; a remove returns
\* true exactly when the list held the id and does not hold it afterwards.
C35_NoDuplicateIds ==
  [][/\ NoDuplicateId(blocklist')
     /\ \A id \in ListArgs :
          /\ (AddStep(id) /\ isValidUserId(id)) =>
                /\ returned' = "true" <=> ~HoldsId(blocklist, id)
                /\ HoldsId(blocklist', id)
          /\ RemoveStep(id) =>
                /\ returned' = "true" <=> HoldsId(blocklist, id)
                /\ ~HoldsId(blocklist', id)]_vars

(* ------------------------------ C36 ----------------------------------- *)
\* the string form of a positive integer
CanonicalId(entry) == \E n \in 1..9 : entry = String(n)

\* an add command whose argument does not denote a positive integer
InvalidAdd ==
  \E id \in ListArgs :
     /\ ~(ToNumber(id).kind = "int" /\ ToNumber(id).val > 0)
     /\ AddStep(id)

\* C36: adding an id that is not a positive integer is rejected with an
\* error and leaves the file and the cached list as they were; every entry of
\* the list is the string form of a positive integer; a valid id is never
\* rejected.
C36_OnlyPositiveIntegers ==
  [][/\ InvalidAdd =>
          /\ returned' = "threw"
          /\ UNCHANGED <<blocklist, blocklistCache>>
     /\ \A i \in 1..Len(blocklist') : CanonicalId(blocklist'[i])
     /\ \A id \in ListArgs :
          (CanonicalId(id) /\ AddStep(id)) => returned' # "threw"]_vars

(* ------------ the webhook endpoint (part_000 527-550) ------------------ *)
\* the confirmation string of the community
CONFIRMATION == "confirmation-string"

\* values of process.env.SECRET and of the secret field of a request body
SecretsConfigured == {"unset", "", "s"}
SecretsSent == {"absent", "s", "w"}

\* req.body: { type, object, secret }
Requests ==
  [type : {"confirmation", "message_new", "message_reply", "other"},
   secret : SecretsSent,
   object : BOOLEAN]

SecretRejectedNever(r) == FALSE

\* `SECRET && secret !== SECRET`
SecretRejected(r) == SECRET \notin {"unset", ""} /\ r.secret # SECRET

Response(status, body, handled) == [status |-> status, body |-> body, handled |-> handled]

\* handleWebhook: the secret, then the type.  handleMessage catches its own
\* errors; reading object.message of a body without object throws, which the
\* catch answers with 500.
Answer(r) ==
  IF SecretRejected(r) THEN Response(401, "Unauthorized", FALSE)
  ELSE IF r.type = "confirmation" THEN Response(200, CONFIRMATION, FALSE)
  ELSE IF r.type = "message_new"
       THEN (IF r.object THEN Response(200, "ok", TRUE)
             ELSE Response(500, "Internal Server Error", FALSE))
  ELSE Response(200, "ok", FALSE)

handleWebhook ==
  /\ req # NoRequest
  /\ res = NoResponse
  /\ res' = Answer(req)
  /\ UNCHANGED <<SECRET, req, envVars, cacheVars, blocklist, botVars>>

\* the next request arrives
Receive(r) ==
  /\ res # NoResponse
  /\ req' = r
  /\ res' = NoResponse
  /\ UNCHANGED <<SECRET, envVars, cacheVars, blocklist, botVars>>

WebhookInit ==
  /\ Booted
  /\ Constructed
  /\ variant \in {"perm", "seq"} /\ allowlist = <<>> /\ blocklist = <<>>
  /\ SECRET \in SecretsConfigured
  /\ req \in Requests
  /\ res = NoResponse

WebhookNext ==
  \/ handleWebhook
  \/ \E r \in Requests : Receive(r)

WebhookSpec == WebhookInit /\ [][WebhookNext]_vars

(* ------------------------------ C37 ----------------------------------- *)
SecretConfigured == SECRET \notin {"unset", ""}

\* C37: with SECRET configured, the answer to a request whose secret is
\* another one, or none, is 401, no message was handled and the answer does
\* not carry the confirmation string, whatever the type of the request.
C37_WrongSecretRefused ==
  (SecretConfigured /\ res # NoResponse /\ req.secret # SECRET) =>
     /\ res.status = 401
     /\ ~res.handled
     /\ res.body # CONFIRMATION

\* a confirmation request and a message with a wrong secret were refused
C37_Witness ==
  /\ SecretConfigured /\ req.secret = "w" /\ req.type = "confirmation"
  /\ res.status = 401

(* ------------------------------ C38 ----------------------------------- *)
\* where a recipient's task stands once it has done its processed++: it has
\* ended, or it waits for or awaits the retry of its send
CountedPcs == {"done", "delay", "retry", "rejected"}

\* the recipients of the run whose task has counted
HasCounted == {u \in Users : Includes(recipients, u) /\ taskpc[u] \in CountedPcs}

\* C38: in every state of a run of the variant with concurrent tasks and a
\* permission check, 0 <= skipped <= processed <= total, and processed is the
\* number of recipients whose task has counted: no recipient counts twice,
\* whatever the order in which the tasks' requests return.
C38_CountersBounded ==
  variant = "perm" =>
    /\ 0 <= skipped
    /\ skipped <= processed
    /\ processed <= Len(recipients)
    /\ processed = Cardinality(HasCounted)

\* the later recipient has been skipped while the earlier one's send is
\* still awaited
C38_Witness ==
  /\ variant = "perm" /\ ~run.dryRun /\ Len(recipients) = 2
  /\ skipped = 1 /\ processed = 1
  /\ taskpc[recipients[1]] = "send" /\ taskpc[recipients[2]] = "done"

====
